---- MODULE Spec2Model ----
(***************************************************************************)
(* FCI-G calculator: calculate_fci.py (driver, weighted decomposition) and *)
(* utility_functions.py (calendar normalizer, lag-pointer cache builder,   *)
(* history assembler).                                                     *)
(*                                                                         *)
(* Dates are day numbers (days since 1970-01-01, proleptic Gregorian).     *)
(* Rows are numbered from 0 as in pandas.  Observation values and weights  *)
(* are integers (integer-scaled).                                          *)
(***************************************************************************)
EXTENDS Integers, Sequences, FiniteSets, TLC

(***************************************************************************)
(* Calendar arithmetic: datetime / dateutil.relativedelta / pandas offsets *)
(***************************************************************************)
IsLeap(y) == (y % 4 = 0 /\ y % 100 # 0) \/ y % 400 = 0

DaysInMonth(y, m) ==
    IF m = 2 THEN (IF IsLeap(y) THEN 29 ELSE 28)
    ELSE IF m \in {4, 6, 9, 11} THEN 30 ELSE 31

MinOf(a, b) == IF a <= b THEN a ELSE b
MaxOf(a, b) == IF a >= b THEN a ELSE b
Abs(x) == IF x < 0 THEN -x ELSE x

\* days since 1970-01-01 of the civil date y-m-d (yy: the year beginning in March)
DaysFromMarchYear(yy, mp, d) ==
    (yy \div 400) * 146097
      + (yy % 400) * 365 + (yy % 400) \div 4 - (yy % 400) \div 100
      + (153 * mp + 2) \div 5 + d - 1 - 719468

DaysFromCivil(y, m, d) ==
    DaysFromMarchYear(IF m <= 2 THEN y - 1 ELSE y, IF m > 2 THEN m - 3 ELSE m + 9, d)

\* the civil date <<y, m, d>> of a day number, from the day of the 400-year era
CivilFromMp(y0, doy, mp) ==
    << y0 + (IF mp < 10 THEN 0 ELSE 1),
       IF mp < 10 THEN mp + 3 ELSE mp - 9,
       doy - (153 * mp + 2) \div 5 + 1 >>

CivilFromDoy(y0, doy) == CivilFromMp(y0, doy, (5 * doy + 2) \div 153)

CivilFromYoe(era, doe, yoe) ==
    CivilFromDoy(yoe + era * 400, doe - (365 * yoe + yoe \div 4 - yoe \div 100))

CivilFromDoe(era, doe) ==
    CivilFromYoe(era, doe,
                 (doe - doe \div 1460 + doe \div 36524 - doe \div 146096) \div 365)

CivilFromShifted(zz) == CivilFromDoe(zz \div 146097, zz % 146097)

CivilFromDays(z) == CivilFromShifted(z + 719468)

Year(z)  == CivilFromDays(z)[1]
Month(z) == CivilFromDays(z)[2]
Day(z)   == CivilFromDays(z)[3]

\* the day `dom` of the month numbered t = 12 * year + (month - 1), clamped
ClampedDate(t, dom) ==
    DaysFromCivil(t \div 12, (t % 12) + 1, MinOf(dom, DaysInMonth(t \div 12, (t % 12) + 1)))

AddMonthsCivil(c, n) == ClampedDate(c[1] * 12 + (c[2] - 1) + n, c[3])

\* date + relativedelta(months=n): the day of month is clamped to the target month
AddMonths(z, n) == AddMonthsCivil(CivilFromDays(z), n)

\* date + pd.DateOffset(years=n)
AddYears(z, n) == AddMonths(z, 12 * n)

\* date.replace(day=1)
FirstOfMonth(z) == z - (Day(z) - 1)

MonthEndCivil(c) == DaysFromCivil(c[1], c[2], DaysInMonth(c[1], c[2]))

\* date + pd.offsets.MonthEnd(0): roll forward to the last day of the month
MonthEnd(z) == MonthEndCivil(CivilFromDays(z))

(***************************************************************************)
(* Program constants                                                       *)
(***************************************************************************)
NumVars    == 7      \* the seven financial variables (data columns)
NumLags    == 12     \* steps of a history walk, rows of the multiplier matrix
EomSlot    == 8      \* the slot of end-of-month chains
MaxCores   == 4      \* num_cores = min(4, cpu_count())
PubYear    == 1990   \* outputs are restricted to dates >= 1990-01-01
LookbackYears == 3   \* first evaluated date = earliest date + 3 years
ChainMonths   == 3   \* the builder ends a chain before earliest date + 3 months

PubStart == DaysFromCivil(PubYear, 1, 1)

(***************************************************************************)
(* Bounds of the model                                                     *)
(***************************************************************************)
TailRows  == 1       \* every calendar is also taken with 1..TailRows more rows
MaxWeight == 2       \* flat weight matrices use the weights 1..MaxWeight
CpuCount  == 2       \* cpu_count() of the machine

NoRow == -1          \* "no such row" (an empty selection)
NaT   == -1          \* a missing date


(***************************************************************************)
(* Input tables                                                            *)
(*   gaps    : n rows from y-m-dom, consecutive gaps cycling through `pat` *)
(*             (daily <<1>>, business days from a Monday <<1,1,1,1,3>>)    *)
(*   monthly : n rows, one per month from y-m, on day-of-month `dom`       *)
(*             (clamped to the length of the month)                        *)
(*   hole    : n rows from y-m-dom, every day, with one longer gap         *)
(*             (pat = <<row before the gap, days of the gap>>)             *)
(***************************************************************************)
RECURSIVE SumSeq(_)
SumSeq(s) == IF s = <<>> THEN 0 ELSE Head(s) + SumSeq(Tail(s))

Prefix(s, k) == IF k = 0 THEN <<>> ELSE SubSeq(s, 1, k)

\* the date of row i of a cyclic-gap calendar
GapDate(start, pat, i) ==
    start + (i \div Len(pat)) * SumSeq(pat) + SumSeq(Prefix(pat, i % Len(pat)))

\* the date of row i of a once-a-month calendar
MonthlyDate(y, m, dom, i) == ClampedDate(y * 12 + (m - 1) + i, dom)

\* the date of row i of an every-day calendar in which row `at` is followed by
\* a gap of `gap` days
HoleDate(start, at, gap, i) == start + i + (IF i > at THEN gap - 1 ELSE 0)

TableDates(t, n) ==
    IF t.kind = "monthly"
    THEN [i \in 0..(n - 1) |-> MonthlyDate(t.y, t.m, t.dom, i)]
    ELSE IF t.kind = "hole"
    THEN [i \in 0..(n - 1) |-> HoleDate(DaysFromCivil(t.y, t.m, t.dom), t.pat[1], t.pat[2], i)]
    ELSE [i \in 0..(n - 1) |-> GapDate(DaysFromCivil(t.y, t.m, t.dom), t.pat, i)]

Daily    == <<1>>
Business == <<1, 1, 1, 1, 3>>
\* rows several months apart: from 1986-10-01 the rows 1987-02-01, 1987-05-31,
\* 1987-08-15
Sparse   == <<123, 119, 76>>
\* business days in which every second Monday is a holiday
Holiday  == <<1, 1, 1, 1, 4, 1, 1, 1, 3>>

(***************************************************************************)
(* State                                                                   *)
(***************************************************************************)
VARIABLES
    rawdate,      \* input_data['date'] as read: row -> date
    vals,         \* the seven data columns: row -> [1..NumVars -> value]
    nacells,      \* the cells of the input that are NA: <<row, column>>
    multipliers,  \* the weight matrix: [0..NumLags-1 -> [1..NumVars -> weight]]
    cache_in,     \* columns V1.. of a 16-column input table, <<>> for other input
    date,         \* delta_data['date'] (month-end normalized when monthly)
    stored,       \* input_results['V2']
    date_stored,  \* input_results['V3'] (the original dates), <<>> when None
    V,            \* columns V1.. of the date table: row -> [j -> index], NaN absent
    gi, gj, endofm, dayt,   \* generatelists: i, j, endofm, dayt
    m3,           \* generatelists: min_date_plus_3m
    sentinel_rows,   \* the rows whose V1 was set to the sentinel 0 (lines 250, 287)
    first_idx,    \* main: first_idx
    indices,      \* main: the list of row indices handed to pool.map
    chunks,       \* pool.map: the task list cut into chunks (sequences of positions)
    taken,        \* pool.map: number of chunks handed to workers
    running,      \* pool.map: chunks being processed
    results,      \* pool.map: position in indices -> result of calculate_fci_for_row
    threeyearFCI_output, oneyearFCI_output,   \* the two output series
    threeyearFCI_output_quarterly, oneyearFCI_output_quarterly,   \* resampled
    pc,           \* where main is
    err           \* the exception that ended main ("" if none)

vars == <<rawdate, vals, nacells, multipliers, cache_in, date, stored, date_stored, V,
          gi, gj, endofm, dayt, m3, sentinel_rows, first_idx, indices, chunks, taken, running,
          results, threeyearFCI_output, oneyearFCI_output,
          threeyearFCI_output_quarterly, oneyearFCI_output_quarterly, pc, err>>

inputVars  == <<rawdate, vals, nacells, multipliers, cache_in>>
prepVars   == <<date, stored, date_stored>>
genVars    == <<gi, gj, endofm, dayt, m3, sentinel_rows>>
poolVars   == <<first_idx, indices, chunks, taken, running, results>>
quarterlyVars == <<threeyearFCI_output_quarterly, oneyearFCI_output_quarterly>>
outVars    == <<threeyearFCI_output, oneyearFCI_output, quarterlyVars>>

\* len(table)
Size(dtab) == Cardinality(DOMAIN dtab)

NRows == Size(rawdate)

(***************************************************************************)
(* Selections over the rows of a table (pandas boolean indexing, min, max) *)
(* computed by halving the row range                                       *)
(***************************************************************************)
Mid(lo, hi) == (lo + hi) \div 2

\* date_table['date'].min()
RECURSIVE MinDateIn(_, _, _)
MinDateIn(dtab, lo, hi) ==
    IF lo = hi THEN dtab[lo]
    ELSE MinOf(MinDateIn(dtab, lo, Mid(lo, hi)), MinDateIn(dtab, Mid(lo, hi) + 1, hi))

MinDate(dtab) == MinDateIn(dtab, 0, Size(dtab) - 1)

\* of two rows (a before b, either may be NoRow) the one dated later; a on a tie
LaterRow(dtab, a, b) ==
    IF a = NoRow THEN b
    ELSE IF b = NoRow THEN a
    ELSE IF dtab[b] > dtab[a] THEN b ELSE a

\* of two rows (a before b, either may be NoRow) the one dated earlier; a on a tie
EarlierRow(dtab, a, b) ==
    IF a = NoRow THEN b
    ELSE IF b = NoRow THEN a
    ELSE IF dtab[b] < dtab[a] THEN b ELSE a

\* date_table[date_table['date'] <= searchdate]['date'].max(), then
\* date_table[date_table['date'] == threedate].index[0]: the first row holding
\* the latest date not after searchdate; NoRow when the selection is empty
RECURSIVE PredecessorIn(_, _, _, _)
PredecessorIn(dtab, searchdate, lo, hi) ==
    IF lo = hi THEN (IF dtab[lo] <= searchdate THEN lo ELSE NoRow)
    ELSE LaterRow(dtab, PredecessorIn(dtab, searchdate, lo, Mid(lo, hi)),
                        PredecessorIn(dtab, searchdate, Mid(lo, hi) + 1, hi))

Predecessor(dtab, searchdate) == PredecessorIn(dtab, searchdate, 0, Size(dtab) - 1)

\* input_data[input_data['date'] >= t]['date'].min(), then
\* input_data[input_data['date'] == firstdate].index[0]: the first row holding
\* the earliest date not before t; NoRow when the selection is empty
RECURSIVE SuccessorIn(_, _, _, _)
SuccessorIn(dtab, t, lo, hi) ==
    IF lo = hi THEN (IF dtab[lo] >= t THEN lo ELSE NoRow)
    ELSE EarlierRow(dtab, SuccessorIn(dtab, t, lo, Mid(lo, hi)),
                          SuccessorIn(dtab, t, Mid(lo, hi) + 1, hi))

\* variant: the first row dated strictly after t
Successor_Strict(dtab, t) == SuccessorIn(dtab, t + 1, 0, Size(dtab) - 1)

Successor(dtab, t) == SuccessorIn(dtab, t, 0, Size(dtab) - 1)

IsNaN(tab, i, j) == j \notin DOMAIN tab[i]

OrElse(a, b) == IF a # NoRow THEN a ELSE b

\* date_table[date_table['V1'].isna()].index[-1]; NoRow when there is none
RECURSIVE LastNaIn(_, _, _)
LastNaIn(tab, lo, hi) ==
    IF lo = hi THEN (IF IsNaN(tab, lo, 1) THEN lo ELSE NoRow)
    ELSE OrElse(LastNaIn(tab, Mid(lo, hi) + 1, hi), LastNaIn(tab, lo, Mid(lo, hi)))

LastNa(tab) == LastNaIn(tab, 0, Size(tab) - 1)

(***************************************************************************)
(* utility_functions.check_EndOfM                                          *)
(***************************************************************************)
MonthChanges(current_date, next_day) ==
    ((Month(next_day) - Month(current_date)) % 12) \in {1, -11}

\* variant: the next calendar day decides for every row
check_EndOfM_NextDay(dtab, i) == MonthChanges(dtab[i], dtab[i] + 1)

check_EndOfM(dtab, i) ==
    MonthChanges(dtab[i], IF i = Size(dtab) - 1 THEN dtab[i] + 1 ELSE dtab[i + 1])

(***************************************************************************)
(* utility_functions.threemonthdate                                        *)
(***************************************************************************)
\* the date searched for without the step of lines 182-184
TwoMonthFix_Skipped(d, sd, dt) == sd

\* lines 182-184: one more month back when only two months were bridged
TwoMonthFix(d, sd, dt) ==
    IF (Month(d) - Month(sd)) % 12 = 2 /\ dt > 15 THEN AddMonths(sd, -1) ELSE sd

\* variant: an end-of-month search that goes back one month less
SearchDate_TwoBack(d, j, eom, dt) ==
    IF eom
    THEN AddMonths(FirstOfMonth(d), -1) - 1
    ELSE TwoMonthFix(d, AddMonths(FirstOfMonth(d + (j - 1)) + (dt - 1), -3), dt)

\* lines 171-184: the date searched for
SearchDate(d, j, eom, dt) ==
    IF eom
    THEN AddMonths(FirstOfMonth(d), -2) - 1
    ELSE TwoMonthFix(d, AddMonths(FirstOfMonth(d + (j - 1)) + (dt - 1), -3), dt)

threemonthdate(dtab, d, j, eom, dt) == Predecessor(dtab, SearchDate(d, j, eom, dt))

\* the shift without the correction of lines 268-271
ShiftFix_NoWrap(j, eom) ==
    IF eom THEN EomSlot ELSE j

\* the shift of the next slot (generatelists lines 266-271, history lines 138-143)
ShiftFix(j, eom) ==
    IF eom THEN EomSlot
    ELSE IF Abs(j) > 9 THEN j + 31 ELSE j

NextSlot(dt, found, eom) == ShiftFix(dt - Day(found) + 1, eom)

\* the slots of one row after date_table.at[i, 'V<j>'] = value
WithSlot(slots, j, value) ==
    [c \in (DOMAIN slots) \cup {j} |-> IF c = j THEN value ELSE slots[c]]

\* date_table.at[i, 'V<j>'] = value
SetSlot(tab, i, j, value) == [tab EXCEPT ![i] = WithSlot(tab[i], j, value)]


(***************************************************************************)
(* main, lines 82-87: read the input and check_input                       *)
(***************************************************************************)
\* variant: only the first column is examined
AnyNa_FirstColumn(cells) == \E c \in cells : c[2] = 0

\* input_df.isna().any().any()
AnyNa(cells) == cells # {}

CheckInput ==
    /\ pc = "check_input"
    /\ IF AnyNa(nacells)
       THEN /\ pc' = "failed"
            /\ err' = "ValueError"
       ELSE /\ pc' = "prepare_inputs"
            /\ err' = err
    /\ UNCHANGED <<inputVars, prepVars, V, genVars, poolVars, outVars>>

(***************************************************************************)
(* prepare_inputs, lines 33-66: frequency detection, month-end             *)
(* normalization, empty linked-list columns                                *)
(***************************************************************************)
IsMonthly(dtab) ==
    \A k \in DOMAIN dtab :
        k >= 1 => (dtab[k] - dtab[k - 1] >= 28 /\ dtab[k] - dtab[k - 1] <= 31)

Normalized(dtab) ==
    IF IsMonthly(dtab) THEN [k \in DOMAIN dtab |-> MonthEnd(dtab[k])] ELSE dtab

PrepareInputs ==
    /\ pc = "prepare_inputs"
    /\ stored' = IsMonthly(rawdate)
    /\ date_stored' = IF IsMonthly(rawdate) THEN rawdate ELSE <<>>
    /\ date' = Normalized(rawdate)
    /\ V' = IF cache_in = <<>> THEN [k \in DOMAIN rawdate |-> <<>>] ELSE cache_in
    /\ pc' = "generatelists"
    /\ UNCHANGED <<inputVars, genVars, poolVars, outVars, err>>

(***************************************************************************)
(* generatelists                                                           *)
(***************************************************************************)
\* lines 243-256 and 280-292: row i starts the next chain; the builder returns
\* (ret) when the row is dated before min_date_plus_3m
\* variant: the chain of an end-of-month row starts at slot 1 as well
RestartAt_SlotOne(tab, i, eom, limit) ==
    [ret  |-> date[i] < limit,
     i    |-> i,
     j    |-> 1,
     eom  |-> eom,
     dayt |-> Day(date[i]),
     tab  |-> IF eom THEN SetSlot(tab, i, 1, 0) ELSE tab,
     sent |-> IF eom THEN {i} ELSE {}]

RestartAt(tab, i, eom, limit) ==
    [ret  |-> date[i] < limit,
     i    |-> i,
     j    |-> IF eom THEN EomSlot ELSE 1,
     eom  |-> eom,
     dayt |-> Day(date[i]),
     tab  |-> IF eom THEN SetSlot(tab, i, 1, 0) ELSE tab,
     sent |-> IF eom THEN {i} ELSE {}]

\* lines 239-241 and 276-278: the builder returns when every row has a node
RestartFrom(tab, i, limit) ==
    IF i = NoRow
    THEN [ret |-> TRUE, i |-> gi, j |-> gj, eom |-> endofm, dayt |-> dayt, tab |-> tab,
          sent |-> {}]
    ELSE RestartAt(tab, i, check_EndOfM(date, i), limit)

\* the most recent row without a node becomes the start of the next chain
Restart(tab, limit) == RestartFrom(tab, LastNa(tab), limit)

\* the builder continues with the chain r, or returns to prepare_inputs, whose
\* merge (line 72) pairs every row of the date table with the rows of equal date
Resume(r) ==
    /\ gi' = r.i
    /\ gj' = r.j
    /\ endofm' = r.eom
    /\ dayt' = r.dayt
    /\ V' = r.tab
    /\ sentinel_rows' = sentinel_rows \cup r.sent
    /\ pc' = IF r.ret THEN "range" ELSE "chain"

\* lines 236-256
GenStart ==
    /\ pc = "generatelists"
    /\ m3' = AddMonths(MinDate(date), ChainMonths)
    /\ Resume(Restart(V, AddMonths(MinDate(date), ChainMonths)))
    /\ UNCHANGED <<inputVars, prepVars, poolVars, outVars, err>>

\* lines 262-295, with index the row found by threemonthdate
ChainStep(index) ==
    IF index = NoRow
    THEN /\ pc' = "failed"
         /\ err' = "IndexError"
         /\ UNCHANGED <<V, gi, gj, endofm, dayt, sentinel_rows>>
    ELSE IF date[index] < m3
         THEN /\ Resume(Restart(SetSlot(V, gi, gj, index), m3))
              /\ err' = err
         ELSE /\ gi' = index
              /\ gj' = NextSlot(dayt, date[index], endofm)
              /\ V' = SetSlot(V, gi, gj, index)
              /\ UNCHANGED <<endofm, dayt, sentinel_rows, pc, err>>

\* lines 258-295: one iteration of the while loop
GenStep ==
    /\ pc = "chain"
    /\ ChainStep(threemonthdate(date, date[gi], gj, endofm, dayt))
    /\ UNCHANGED <<inputVars, prepVars, m3, poolVars, outVars>>

(***************************************************************************)
(* utility_functions.history                                               *)
(***************************************************************************)
\* a row of the window: the date and the data columns of input row r
\* (`row` records which input row it is)
WindowRow(r) == [row |-> r, date |-> date[r], x |-> vals[r]]

\* lines 132-143: the 12 steps of the walk.  Reading a NaN slot raises
\* (int(nan)); ok = FALSE then, and hist is what had been collected
RECURSIVE HistWalk(_, _, _, _, _, _)
RECURSIVE HistStep(_, _, _, _, _)
HistStep(index, count, eom, dt, hist) ==
    HistWalk(index, NextSlot(dt, date[index], eom), count + 1, eom, dt,
             Append(hist, WindowRow(index)))

HistWalk(oldindex, j, count, eom, dt, hist) ==
    IF count = NumLags THEN [ok |-> TRUE, hist |-> hist]
    ELSE IF IsNaN(V, oldindex, j) THEN [ok |-> FALSE, hist |-> hist]
    ELSE HistStep(V[oldindex][j], count, eom, dt, hist)

HistFrom(i, eom) ==
    HistWalk(i, IF eom THEN EomSlot ELSE 1, 0, eom, Day(date[i]), <<WindowRow(i)>>)

history(i) == HistFrom(i, check_EndOfM(date, i))

\* the cells <<row, slot>> that the walk reads (line 134), up to the first
\* unset one
RECURSIVE ReadsWalk(_, _, _, _, _)
RECURSIVE ReadsStep(_, _, _, _)
ReadsStep(index, count, eom, dt) ==
    ReadsWalk(index, NextSlot(dt, date[index], eom), count + 1, eom, dt)

ReadsWalk(oldindex, j, count, eom, dt) ==
    IF count = NumLags THEN {}
    ELSE {<<oldindex, j>>} \cup
         (IF IsNaN(V, oldindex, j) THEN {}
          ELSE ReadsStep(V[oldindex][j], count, eom, dt))

ReadsFrom(i, eom) == ReadsWalk(i, IF eom THEN EomSlot ELSE 1, 0, eom, Day(date[i]))

HistReads(i) == ReadsFrom(i, check_EndOfM(date, i))

(***************************************************************************)
(* calculate_fci.calculate_fci_for_row                                     *)
(***************************************************************************)
\* (hist.iloc[0:n][col] * multipliers.iloc[0:n][col]).sum()
RECURSIVE LagSum(_, _, _, _)
LagSum(hist, w, v, n) ==
    IF n = 0 THEN 0
    ELSE LagSum(hist, w, v, n - 1) + hist[n].x[v] * w[n - 1][v]

ThreeYear(hist, w) == [v \in 1..NumVars |-> LagSum(hist, w, v, 12)]
\* variant: the 1-year sum taken over five lags
OneYear_FiveLags(hist, w) == [v \in 1..NumVars |-> LagSum(hist, w, v, 5)]
OneYear(hist, w)   == [v \in 1..NumVars |-> LagSum(hist, w, v, 4)]

RowResult(i, h) ==
    IF ~h.ok THEN [ok |-> FALSE]
    ELSE [ok |-> TRUE, row |-> i, date |-> date[i],
          threeyear |-> ThreeYear(h.hist, multipliers),
          oneyear |-> OneYear(h.hist, multipliers)]

calculate_fci_for_row(i) == RowResult(i, history(i))


(***************************************************************************)
(* main, lines 100-115: the evaluation range and the worker pool           *)
(***************************************************************************)
NumCores == MinOf(MaxCores, CpuCount)

\* list(range(hi, lo - 1, -1))
DescRange(hi, lo) == [p \in 1..(hi - lo + 1) |-> hi - (p - 1)]

\* Pool.map cuts a list of n tasks into chunks of ceil(n / (4 * workers)) tasks
ChunkSize(n) == (n \div (NumCores * 4)) + (IF n % (NumCores * 4) # 0 THEN 1 ELSE 0)

ChunksOf(n, cs) ==
    [c \in 1..((n + cs - 1) \div cs) |->
        [p \in 1..MinOf(cs, n - (c - 1) * cs) |-> (c - 1) * cs + p]]

Chunks(n) == ChunksOf(n, ChunkSize(n))

\* lines 103-115, with fi the first row dated at or after min_date + 3 years
\* (.index[0] of an empty index raises when there is none)
RangeFrom(fi) ==
    IF fi = NoRow
    THEN /\ pc' = "failed"
         /\ err' = "IndexError"
         /\ UNCHANGED <<first_idx, indices, chunks>>
    ELSE /\ first_idx' = fi
         /\ indices' = DescRange(NRows - 1, fi)
         /\ chunks' = Chunks(NRows - fi)
         /\ pc' = "pool"
         /\ err' = err

DriverRange ==
    /\ pc = "range"
    /\ RangeFrom(Successor(date, AddYears(MinDate(date), LookbackYears)))
    /\ taken' = 0
    /\ running' = {}
    /\ results' = <<>>
    /\ UNCHANGED <<inputVars, prepVars, V, genVars, outVars>>

\* an idle worker takes the next chunk of tasks
WorkerTake ==
    /\ pc = "pool"
    /\ taken < Len(chunks)
    /\ Cardinality(running) < NumCores
    /\ taken' = taken + 1
    /\ running' = running \cup {taken + 1}
    /\ UNCHANGED <<inputVars, prepVars, V, genVars, first_idx, indices, chunks,
                   results, outVars, pc, err>>

\* the results of the tasks of chunk c: position in indices -> result
ChunkResults(c) ==
    [p \in {chunks[c][q] : q \in DOMAIN chunks[c]} |-> calculate_fci_for_row(indices[p])]

\* an exception in a task is re-raised by pool.map in main
Deliver(out) ==
    IF \E p \in DOMAIN out : ~out[p].ok
    THEN /\ pc' = "failed"
         /\ err' = "ValueError"
         /\ results' = results
    ELSE /\ results' = [p \in (DOMAIN results) \cup (DOMAIN out) |->
                           IF p \in DOMAIN out THEN out[p] ELSE results[p]]
         /\ UNCHANGED <<pc, err>>

\* variant: the window is cut out of the table in place, which drops the
\* slot columns of the table
TaskReads_DropsSlots ==
    /\ V' = [k \in DOMAIN V |-> <<>>]
    /\ UNCHANGED <<inputVars, prepVars, genVars>>

\* history and calculate_fci_for_row build new frames (.iloc[[i]].drop(...),
\* pd.concat) and assign to no cell of input_data or multipliers
TaskReads == UNCHANGED <<inputVars, prepVars, V, genVars>>

\* a worker finishes its chunk: calculate_fci_for_row on each of its tasks
WorkerFinish ==
    /\ pc = "pool"
    /\ \E c \in running :
         /\ running' = running \ {c}
         /\ \E out \in {ChunkResults(c)} : Deliver(out)
    /\ TaskReads
    /\ UNCHANGED <<first_idx, indices, chunks, taken, outVars>>

(***************************************************************************)
(* main, lines 117-167: the two output series                              *)
(***************************************************************************)
Reverse(s) == [k \in 1..Len(s) |-> s[Len(s) + 1 - k]]

Negated(f) == [v \in DOMAIN f |-> -1 * f[v]]

RECURSIVE RowSum(_, _)
RowSum(f, n) == IF n = 0 THEN 0 ELSE RowSum(f, n - 1) + f[n]

OnOrAfterPubStart(r) == r.date >= PubStart

\* variant: the components published without the sign flip
DecompRow_Unsigned(r) ==
    [date |-> r.date, row |-> r.row,
     threeyear |-> r.threeyear, oneyear |-> r.oneyear]

DecompRow(r) ==
    [date |-> r.date, row |-> r.row,
     threeyear |-> Negated(r.threeyear), oneyear |-> Negated(r.oneyear)]

\* lines 127-132: the decomposition from the publication start on, sign flipped
OutputDecomp(decomp) ==
    SelectSeq([k \in 1..Len(decomp) |-> DecompRow(decomp[k])], OnOrAfterPubStart)

\* variant: the index published without the sign flip
DailyRow_Unsigned(r) ==
    [date |-> r.date, row |-> r.row,
     fci3val |-> RowSum(r.threeyear, NumVars),
     fci1val |-> RowSum(r.oneyear, NumVars)]

DailyRow(r) ==
    [date |-> r.date, row |-> r.row,
     fci3val |-> -1 * RowSum(r.threeyear, NumVars),
     fci1val |-> -1 * RowSum(r.oneyear, NumVars)]

\* lines 135-140: the index values, then the rows from the publication start on
FCIDaily(decomp) ==
    SelectSeq([k \in 1..Len(decomp) |-> DailyRow(decomp[k])], OnOrAfterPubStart)

\* a row of FCI_daily joined with the rows m of output_decomp of the same date
\* (comprow: the input row the components come from)
Joined(l, m, three) ==
    [k \in 1..Len(m) |->
        [date |-> l.date, row |-> l.row,
         val |-> IF three THEN l.fci3val ELSE l.fci1val,
         comprow |-> m[k].row,
         comps |-> IF three THEN m[k].threeyear ELSE m[k].oneyear]]

\* pd.merge(left, right, on='date'): every pair of rows with equal dates, in
\* the order of left
RECURSIVE MergeOnDate(_, _, _, _)
MergeOnDate(left, right, three, k) ==
    IF k > Len(left) THEN <<>>
    ELSE Joined(left[k], SelectSeq(right, LAMBDA r : r.date = left[k].date), three)
           \o MergeOnDate(left, right, three, k + 1)

\* final_dates: the original dates from the publication start on
FinalDates(orig) == SelectSeq([k \in 1..NRows |-> [date |-> orig[k - 1]]], OnOrAfterPubStart)

\* lines 166-167: output['date'] = final_dates['date'].iloc[:len(output)],
\* aligned on the row number
WithDates(output, final_dates) ==
    [k \in 1..Len(output) |->
        [output[k] EXCEPT !.date = IF k <= Len(final_dates)
                                   THEN final_dates[k].date ELSE NaT]]

\* lines 163-167
RestoreDates(output) ==
    IF stored THEN WithDates(output, FinalDates(date_stored)) ELSE output

Outputs(daily, decomp) ==
    /\ threeyearFCI_output' = RestoreDates(MergeOnDate(daily, decomp, TRUE, 1))
    /\ oneyearFCI_output' = RestoreDates(MergeOnDate(daily, decomp, FALSE, 1))

\* variant: the results left in task order
FCIDecomp_TaskOrder == [p \in 1..Len(indices) |-> results[p]]

\* lines 118-121: the results in task order, reversed
FCIDecomp == Reverse([p \in 1..Len(indices) |-> results[p]])

Collect ==
    /\ pc = "pool"
    /\ taken = Len(chunks)
    /\ running = {}
    /\ Outputs(FCIDaily(FCIDecomp), OutputDecomp(FCIDecomp))
    /\ pc' = "done"
    /\ UNCHANGED <<inputVars, prepVars, V, genVars, poolVars, quarterlyVars, err>>

(***************************************************************************)
(* Inputs                                                                  *)
(***************************************************************************)
\* data columns: one variable constantly 1 and the others 0, or mixed values
ValRow(vk, i) ==
    IF vk.kind = "unit"
    THEN [v \in 1..NumVars |-> IF v = vk.u THEN 1 ELSE 0]
    ELSE [v \in 1..NumVars |-> ((3 * i + 5 * v) % 7) - 3]

\* weight matrices: every weight w, or mixed weights
Weights(wk) ==
    IF wk.kind = "flat"
    THEN [k \in 0..(NumLags - 1) |-> [v \in 1..NumVars |-> wk.w]]
    ELSE [k \in 0..(NumLags - 1) |-> [v \in 1..NumVars |-> ((2 * k + 3 * v) % 5) - 2]]

\* kinds of data columns and of weight matrices
Unit(u)  == [kind |-> "unit", u |-> u]
Mixed    == [kind |-> "mixed", u |-> 0]
Flat(w)  == [kind |-> "flat", w |-> w]
MixedW   == [kind |-> "mixed", w |-> 0]

UnitKinds == {Unit(1), Unit(NumVars)}
FlatKinds == {Flat(w) : w \in 1..MaxWeight}

\* the calendars: every day; business days; once a month.  vks, wks: the data
\* and the weights the calendar is taken with; na: also with an NA cell
Tables ==
    { \* every day 1987-04-15 .. 1990-07-29
      [kind |-> "gaps", y |-> 1987, m |-> 4, dom |-> 15, pat |-> Daily, n |-> 1202,
       vks |-> {Mixed}, wks |-> {MixedW}, na |-> FALSE],
      \* every day 1987-01-01 .. 1990-05-30
      [kind |-> "gaps", y |-> 1987, m |-> 1, dom |-> 1, pat |-> Daily, n |-> 1246,
       vks |-> {Mixed}, wks |-> {MixedW}, na |-> FALSE],
      \* every day 1986-11-29 .. 1987-05-28
      [kind |-> "gaps", y |-> 1986, m |-> 11, dom |-> 29, pat |-> Daily, n |-> 181,
       vks |-> {Mixed}, wks |-> {MixedW}, na |-> FALSE],
      \* every day 1986-12-25 .. 1987-07-01 without 1987-03-26 .. 1987-04-01
      [kind |-> "hole", y |-> 1986, m |-> 12, dom |-> 25, pat |-> <<90, 8>>,
       n |-> 182, vks |-> {Mixed}, wks |-> {MixedW}, na |-> FALSE],
      \* business days Monday 1986-11-24 .. 1990-01-12
      [kind |-> "gaps", y |-> 1986, m |-> 11, dom |-> 24, pat |-> Business, n |-> 820,
       vks |-> {Mixed}, wks |-> {MixedW}, na |-> FALSE],
      \* business days Monday 1986-12-01 .. 1989-12-08
      [kind |-> "gaps", y |-> 1986, m |-> 12, dom |-> 1, pat |-> Business, n |-> 790,
       vks |-> {Mixed}, wks |-> {MixedW}, na |-> FALSE],
      \* business days Monday 1986-11-03 .. 1989-11-24, every second Monday off
      [kind |-> "gaps", y |-> 1986, m |-> 11, dom |-> 3, pat |-> Holiday, n |-> 720,
       vks |-> {Mixed}, wks |-> {MixedW}, na |-> FALSE],
      \* four rows 1986-10-01, 1987-02-01, 1987-05-31, 1987-08-15
      [kind |-> "gaps", y |-> 1986, m |-> 10, dom |-> 1, pat |-> Sparse, n |-> 4,
       vks |-> {Mixed}, wks |-> {MixedW}, na |-> FALSE],
      \* the 15th of every month 1986-10 .. 1990-03
      [kind |-> "monthly", y |-> 1986, m |-> 10, dom |-> 15, pat |-> <<>>, n |-> 42,
       vks |-> UnitKinds \cup {Mixed}, wks |-> FlatKinds \cup {MixedW}, na |-> TRUE],
      \* the 15th of every month 1987-06 .. 1990-07
      [kind |-> "monthly", y |-> 1987, m |-> 6, dom |-> 15, pat |-> <<>>, n |-> 38,
       vks |-> {Mixed}, wks |-> {MixedW}, na |-> TRUE],
      \* the last day of every month 1980-01 .. 1990-01
      [kind |-> "monthly", y |-> 1980, m |-> 1, dom |-> 31, pat |-> <<>>, n |-> 121,
       vks |-> UnitKinds, wks |-> FlatKinds, na |-> FALSE],
      \* the 15th of every month 1988-01 .. 1989-12: less than three years
      [kind |-> "monthly", y |-> 1988, m |-> 1, dom |-> 15, pat |-> <<>>, n |-> 24,
       vks |-> {Mixed}, wks |-> {MixedW}, na |-> FALSE] }

\* no NA cell, or one in the date column of the first row (column 0), or one in
\* the last data column of the last row
NaChoices(t, n) ==
    IF t.na THEN {{}, {<<0, 0>>}, {<<n - 1, NumVars>>}} ELSE {{}}

InitWith(dates, n, vk, wk, na) ==
    /\ rawdate = dates
    /\ vals = [i \in 0..(n - 1) |-> ValRow(vk, i)]
    /\ nacells = na
    /\ multipliers = Weights(wk)
    /\ cache_in = <<>>
    /\ date = dates
    /\ stored = FALSE
    /\ date_stored = <<>>
    /\ V = <<>>
    /\ gi = 0 /\ gj = 1 /\ endofm = FALSE /\ dayt = 0 /\ m3 = 0
    /\ sentinel_rows = {}
    /\ first_idx = 0
    /\ indices = <<>>
    /\ chunks = <<>>
    /\ taken = 0
    /\ running = {}
    /\ results = <<>>
    /\ threeyearFCI_output = <<>>
    /\ oneyearFCI_output = <<>>
    /\ threeyearFCI_output_quarterly = <<>>
    /\ oneyearFCI_output_quarterly = <<>>
    /\ pc = "check_input"
    /\ err = ""

Init ==
    \E t \in Tables, e \in 0..TailRows :
        \E vk \in t.vks, wk \in t.wks, na \in NaChoices(t, t.n + e) :
            InitWith(TableDates(t, t.n + e), t.n + e, vk, wk, na)

Next ==
    \/ CheckInput
    \/ PrepareInputs
    \/ GenStart
    \/ GenStep
    \/ DriverRange
    \/ WorkerTake
    \/ WorkerFinish
    \/ Collect

Spec == Init /\ [][Next]_vars


(***************************************************************************)
(* The normalizer alone, on short calendars with arbitrary gaps            *)
(***************************************************************************)
MaxGaps == 3         \* calendars of 2..MaxGaps+1 rows

NormStarts == {DaysFromCivil(2000, 1, 1), DaysFromCivil(2000, 1, 31)}
GapChoices == {1, 28, 30, 31}

\* the calendar that starts at start and continues with the gaps g
GapCalendar(start, g) == [i \in 0..Len(g) |-> start + SumSeq(Prefix(g, i))]

InitNorm ==
    \E start \in NormStarts, k \in 1..MaxGaps :
        \E g \in [1..k -> GapChoices] :
            InitWith(GapCalendar(start, g), k + 1, Mixed, MixedW, {})

NextNorm ==
    \/ CheckInput
    \/ PrepareInputs

SpecNorm == InitNorm /\ [][NextNorm]_vars

(***************************************************************************)
(* utility_functions.makeQuarterly, applied to the two output series       *)
(* (main, lines 177-184, with quarterly set)                               *)
(***************************************************************************)
\* pd.PeriodIndex(..., freq='Q'): the calendar quarter of a date
Quarter(d) == Year(d) * 4 + (Month(d) - 1) \div 3

\* variant: the first row of every quarter is kept
IsHeadOfGroup(s, k) == \A m \in 1..(k - 1) : Quarter(s[m].date) # Quarter(s[k].date)

\* groupby('Quarter').tail(1): row k is the last row, by position, of its group
IsTailOfGroup(s, k) == \A m \in (k + 1)..Len(s) : Quarter(s[m].date) # Quarter(s[k].date)

\* the rows kept, in their original order, renumbered (reset_index)
RECURSIVE QuarterTails(_, _)
QuarterTails(s, k) ==
    IF k > Len(s) THEN <<>>
    ELSE (IF IsTailOfGroup(s, k) THEN <<s[k]>> ELSE <<>>) \o QuarterTails(s, k + 1)

makeQuarterly(monthly_data) == QuarterTails(monthly_data, 1)

MakeQuarterly ==
    /\ pc = "done"
    /\ threeyearFCI_output_quarterly' = makeQuarterly(threeyearFCI_output)
    /\ oneyearFCI_output_quarterly' = makeQuarterly(oneyearFCI_output)
    /\ pc' = "quarterly"
    /\ UNCHANGED <<inputVars, prepVars, V, genVars, poolVars,
                   threeyearFCI_output, oneyearFCI_output, err>>

\* the calendars taken through to the resampled series
QuarterlyTables == {t \in Tables : t.kind = "monthly" \/ t.pat = Daily}

InitQuarterly ==
    \E t \in QuarterlyTables, e \in 0..TailRows :
        \E vk \in t.vks, wk \in t.wks, na \in NaChoices(t, t.n + e) :
            InitWith(TableDates(t, t.n + e), t.n + e, vk, wk, na)

NextQuarterly ==
    \/ Next
    \/ MakeQuarterly

SpecQuarterly == InitQuarterly /\ [][NextQuarterly]_vars

(***************************************************************************)
(* The builder run again on its own output: prepare_inputs called on the   *)
(* 16-column table that an earlier call returned                           *)
(***************************************************************************)
\* the calendars taken up to the end of the builder only
RebuildTables == {t \in Tables : t.kind = "monthly" \/ t.pat = Business}

InitRebuild ==
    \E t \in RebuildTables, e \in 0..TailRows :
        \E vk \in t.vks, wk \in t.wks, na \in NaChoices(t, t.n + e) :
            InitWith(TableDates(t, t.n + e), t.n + e, vk, wk, na)

\* prepare_inputs(input_results['V1']): the dates and the slot columns of the
\* returned table are the input of the second call
Reprepare ==
    /\ pc = "range"
    /\ cache_in = <<>>
    /\ rawdate' = date
    /\ cache_in' = V
    /\ pc' = "prepare_inputs"
    /\ UNCHANGED <<vals, nacells, multipliers, prepVars, V, genVars, poolVars,
                   outVars, err>>

NextRebuild ==
    \/ CheckInput
    \/ PrepareInputs
    \/ GenStart
    \/ GenStep
    \/ Reprepare

SpecRebuild == InitRebuild /\ [][NextRebuild]_vars

(***************************************************************************)
(* Properties                                                              *)
(***************************************************************************)
StrictlyOrdered(dtab) == \A k \in DOMAIN dtab : k >= 1 => dtab[k - 1] < dtab[k]

\* the rows of the evaluation range: dated at or after the earliest date + 3 years
\* the first date of the evaluation range: earliest date + 3 years
FirstEligible == AddYears(MinDate(date), LookbackYears)

RowsFrom(t) == {k \in DOMAIN date : date[k] >= t}

EvalRows == RowsFrom(FirstEligible)

StartSlot(i) == IF check_EndOfM(date, i) THEN EomSlot ELSE 1

\* C1: when generatelists has returned on a strictly date-ordered table, every
\* row of the evaluation range has its starting slot (8 for an end-of-month
\* row, 1 otherwise) populated and the history walk from it reads only
\* populated slots.
C1_CachePostcondition ==
    (pc = "range" /\ StrictlyOrdered(date)) =>
        \A i \in EvalRows : ~IsNaN(V, i, StartSlot(i)) /\ history(i).ok

WindowOk(i, h) ==
    /\ h.ok
    /\ Len(h.hist) = 13
    /\ h.hist[1] = WindowRow(i)
    /\ \A k \in 1..12 :
         /\ h.hist[k + 1].date <= h.hist[k].date
         /\ h.hist[k].date - h.hist[k + 1].date >= 80

\* C2: for every row i of the evaluation range history(i) has exactly 13
\* entries, starts with row i, and each entry is dated not later than, and at
\* least 80 days before, the entry preceding it.
C2_HistoryWindow ==
    pc = "range" => \A i \in EvalRows : WindowOk(i, history(i))

IsUnitData(u) ==
    \A i \in DOMAIN vals : \A v \in 1..NumVars : vals[i][v] = (IF v = u THEN 1 ELSE 0)

IsFlatWeight(w) ==
    \A k \in DOMAIN multipliers : \A v \in 1..NumVars : multipliers[k][v] = w

\* a monthly series from 1980-01-31, one variable constantly 1, weights all equal
EndToEndInput ==
    /\ rawdate[0] = DaysFromCivil(1980, 1, 31)
    /\ IsMonthly(rawdate)
    /\ \E u \in 1..NumVars : IsUnitData(u)
    /\ IsFlatWeight(multipliers[0][1])

AllVals(out, x) == \A k \in DOMAIN out : out[k].val = x

\* C3: on the end-to-end input with weight w the 3-year index of every output
\* date is -(12 * w) and the 1-year index is -(4 * w).
C3_EndToEnd ==
    (pc = "done" /\ EndToEndInput) =>
        /\ AllVals(threeyearFCI_output, -(12 * multipliers[0][1]))
        /\ AllVals(oneyearFCI_output, -(4 * multipliers[0][1]))

C3_Witness ==
    /\ pc = "done"
    /\ EndToEndInput
    /\ multipliers[0][1] = 2
    /\ Len(threeyearFCI_output) >= 1
    /\ Len(oneyearFCI_output) >= 1

\* the product of window row k and weight row k for variable v
Term(h, v, k) == h[k + 1].x[v] * multipliers[k][v]

Sum4(h, v) == Term(h, v, 0) + Term(h, v, 1) + Term(h, v, 2) + Term(h, v, 3)

Sum12(h, v) ==
    Sum4(h, v) + Term(h, v, 4) + Term(h, v, 5) + Term(h, v, 6) + Term(h, v, 7)
               + Term(h, v, 8) + Term(h, v, 9) + Term(h, v, 10) + Term(h, v, 11)

\* the window with other values in its row 12
OtherFarthest(h) ==
    [ok |-> TRUE,
     hist |-> [h.hist EXCEPT ![13].x = [v \in 1..NumVars |-> h.hist[13].x[v] + 1]]]

ContributionsOk(i, res, h) ==
    /\ \A v \in 1..NumVars :
         /\ res.threeyear[v] = Sum12(h.hist, v)
         /\ res.oneyear[v] = Sum4(h.hist, v)
    /\ RowResult(i, OtherFarthest(h)) = res

\* C4: every result of calculate_fci_for_row holds, per variable, the sum over
\* k = 0..11 of window[k] * weight[k] (3-year) and the sum over k = 0..3
\* (1-year); the values of window row 12 do not change the result.
C4_Contributions ==
    \A p \in DOMAIN results :
        ContributionsOk(indices[p], results[p], history(indices[p]))

C4_Witness ==
    \E p \in DOMAIN results : \E v \in 1..NumVars :
        /\ results[p].threeyear[v] # 0
        /\ results[p].oneyear[v] # 0
        /\ results[p].threeyear[v] # results[p].oneyear[v]
        /\ history(indices[p]).hist[13].x[v] # 0

Sum7(f) == f[1] + f[2] + f[3] + f[4] + f[5] + f[6] + f[7]

\* the raw result computed for input row r
RawOf(r) == results[CHOOSE p \in DOMAIN results : results[p].row = r]

PublishedOk(o, raw) ==
    /\ o.val = -Sum7(raw)
    /\ o.val = Sum7(o.comps)
    /\ o.comprow = o.row
    /\ \A v \in 1..NumVars : o.comps[v] = -raw[v]

\* C5: in every output row the index value is the negated sum of the seven
\* raw contributions of its input row, the components are the negated raw
\* contributions of that row, and so the index is the sum of the components.
C5_IndexIsSumOfComponents ==
    pc = "done" =>
        /\ \A k \in DOMAIN threeyearFCI_output :
             PublishedOk(threeyearFCI_output[k], RawOf(threeyearFCI_output[k].row).threeyear)
        /\ \A k \in DOMAIN oneyearFCI_output :
             PublishedOk(oneyearFCI_output[k], RawOf(oneyearFCI_output[k].row).oneyear)

C5_Witness ==
    /\ pc = "done"
    /\ \E k \in DOMAIN threeyearFCI_output :
         /\ threeyearFCI_output[k].val # 0
         /\ \E v \in 1..NumVars : threeyearFCI_output[k].comps[v] < 0
         /\ \E v \in 1..NumVars : threeyearFCI_output[k].comps[v] > 0
    /\ \E k \in DOMAIN oneyearFCI_output : oneyearFCI_output[k].val # 0

OriginalDates(out) == \A k \in DOMAIN out : out[k].date = rawdate[out[k].row]

\* C6: when the dates were normalized to month-end, every output row carries
\* the original date of the input row its values were computed from.
C6_OriginalDatesRestored ==
    (pc = "done" /\ stored) =>
        OriginalDates(threeyearFCI_output) /\ OriginalDates(oneyearFCI_output)

\* the input rows that are published
Qualifying == {i \in EvalRows : date[i] >= PubStart}

SeriesOk(out) ==
    /\ Len(out) = Cardinality(Qualifying)
    /\ {out[k].row : k \in DOMAIN out} = Qualifying
    /\ \A k \in DOMAIN out :
         k > 1 => (out[k - 1].row < out[k].row /\ out[k - 1].date < out[k].date)

\* C7: each output series has exactly one row per input row dated at or
\* after the earliest date + 3 years and 1990-01-01, no other row, in
\* ascending order, whatever the order in which the workers finished.
C7_OneRowPerQualifyingDate ==
    pc = "done" => SeriesOk(threeyearFCI_output) /\ SeriesOk(oneyearFCI_output)

C7_Witness ==
    /\ pc = "done"
    /\ Len(threeyearFCI_output) >= 2
    /\ Cardinality(Qualifying) < Cardinality(EvalRows)
    /\ Len(chunks) > NumCores

\* C8: with an NA cell in the input, check_input raises ValueError and main
\* goes no further: no slot table, no task result, no output series.
C8_NaRejected ==
    nacells # {} =>
        /\ pc \in {"check_input", "failed"}
        /\ pc = "failed" => err = "ValueError"
        /\ V = <<>> /\ results = <<>>
        /\ threeyearFCI_output = <<>> /\ oneyearFCI_output = <<>>

C8_Witness == nacells = {<<NRows - 1, NumVars>>} /\ pc = "failed" /\ err = "ValueError"

\* C9: the dates of a strictly increasing input calendar are still strictly
\* increasing after prepare_inputs has normalized them.
C9_NormalizedStrictlyOrdered ==
    (pc = "generatelists" /\ StrictlyOrdered(rawdate)) => StrictlyOrdered(date)

\* C10: on an input without NA cells main never ends in an exception, also
\* when the dates span less than three years.
C10_NoRuntimeFailure == nacells = {} => pc # "failed"

\* the rows handed to the pool
Evaluated == {indices[p] : p \in DOMAIN indices}

BoundaryOk(t, eligible, evaluated) ==
    /\ evaluated = eligible
    /\ indices[Len(indices)] = first_idx
    /\ \A i \in DOMAIN date :
         /\ date[i] = t => i = first_idx
         /\ date[i] = t - 1 => i \notin evaluated
         /\ i < first_idx => i \notin evaluated
    /\ \A p \in DOMAIN results : results[p].row \in eligible

\* C11: the driver evaluates the row dated exactly earliest date + 3 years
\* first and no row dated the day before; every row handed to the pool, and
\* every row a result was computed for, is dated on or after that date.
C11_FirstEligibleBoundary ==
    (pc \in {"pool", "done"} /\ StrictlyOrdered(date)) =>
        BoundaryOk(FirstEligible, EvalRows, Evaluated)

C11_Witness ==
    /\ pc = "pool"
    /\ date[first_idx] = FirstEligible
    /\ date[first_idx - 1] = FirstEligible - 1
    /\ \E p \in DOMAIN results : results[p].row = first_idx

\* C12: when the builder has run on a table it had already processed, every
\* slot of every row holds what it held after the first run.
C12_BuilderIdempotent ==
    (pc = "range" /\ cache_in # <<>>) => V = cache_in

QuartersOf(s) == {Quarter(s[k].date) : k \in DOMAIN s}

SortedByDate(s) == \A k \in DOMAIN s : k > 1 => s[k - 1].date < s[k].date

\* row r of the resampled series is the chronologically last row of its quarter
LastOfQuarter(s, r) ==
    /\ \E m \in DOMAIN s : s[m] = r
    /\ \A m \in DOMAIN s : Quarter(s[m].date) = Quarter(r.date) => s[m].date <= r.date

ResampledOk(s, q) ==
    /\ QuartersOf(q) = QuartersOf(s)
    /\ Len(q) = Cardinality(QuartersOf(s))
    /\ \A k \in DOMAIN q : LastOfQuarter(s, q[k])

\* C13: for a series sorted by date makeQuarterly returns exactly one row for
\* every calendar quarter that has a row in the series, and it is the
\* chronologically last row of that quarter, values included.
C13_QuarterlyLastOfQuarter ==
    pc = "quarterly" =>
        /\ SortedByDate(threeyearFCI_output) =>
             ResampledOk(threeyearFCI_output, threeyearFCI_output_quarterly)
        /\ SortedByDate(oneyearFCI_output) =>
             ResampledOk(oneyearFCI_output, oneyearFCI_output_quarterly)

C13_Witness ==
    /\ pc = "quarterly"
    /\ SortedByDate(threeyearFCI_output)
    /\ Len(threeyearFCI_output_quarterly) >= 2
    /\ Len(threeyearFCI_output) > Len(threeyearFCI_output_quarterly) + 1
    /\ threeyearFCI_output_quarterly[1] # threeyearFCI_output[1]

\* the builder is at a chain step whose predecessor search finds no row
LookupMiss ==
    pc = "chain" /\ threemonthdate(date, date[gi], gj, endofm, dayt) = NoRow

\* C14: a chain step of the builder whose search date lies before the earliest
\* date of the table raises no error: the builder goes on (with this chain or
\* the next frontier row) or returns.
C14_LookupMissNotRaised ==
    [][LookupMiss => (pc' \in {"chain", "range"} /\ err' = "")]_vars

\* every populated slot keeps its content in the next state
SlotsStable ==
    \A i \in DOMAIN V : \A j \in DOMAIN V[i] :
        j \in DOMAIN V'[i] /\ V'[i][j] = V[i][j]

\* C15: no step of the builder changes a slot that already holds a value (a
\* row index or the sentinel) to another value or back to unset.
C15_SlotsNeverOverwritten ==
    [][(pc \in {"generatelists", "chain"} => SlotsStable)]_vars

\* the day after date d falls in another month
LastDayOfMonth(d) == Month(d + 1) # Month(d)

\* date b falls in the month whose number follows that of the month of date a
InFollowingMonth(a, b) == Month(b) = (Month(a) % 12) + 1

\* the date that follows row i: that of the next row, or the next day for the
\* last of n rows
FollowingDate(dtab, i, n) == IF i = n - 1 THEN dtab[i] + 1 ELSE dtab[i + 1]

NoTaskStarted == taken = 0 /\ running = {} /\ results = <<>>

\* prepare_inputs (with the builder) has not returned yet
Preparing == pc \in {"check_input", "prepare_inputs", "generatelists", "chain"}

\* the shared table and the weights are the same in the next state
CacheUntouched ==
    /\ V' = V
    /\ date' = date
    /\ vals' = vals
    /\ multipliers' = multipliers

\* C17: while the builder has not returned no per-date task has started, and
\* from the moment the pool runs no step changes a slot, a date, an
\* observation value or a weight.
C17_CacheReadOnlyAfterBuild ==
    /\ [](Preparing => NoTaskStarted)
    /\ [][(pc = "pool" => CacheUntouched)]_vars

C17_Witness ==
    /\ pc = "pool"
    /\ running # {}
    /\ results # <<>>
    /\ \E i \in DOMAIN V : V[i] # <<>>

\* a read of slot 1 of a row that holds the sentinel there
ReadsSentinel(rd) == rd[2] = 1 /\ rd[1] \in sentinel_rows

SlotRange == 1..EomSlot

\* consecutive rows are at most `g` days apart
RowsWithin(g) == \A k \in DOMAIN date : k = 0 \/ date[k] - date[k - 1] <= g

\* C19: on a calendar whose consecutive rows are at most 4 days apart the slot
\* the builder is about to write, every slot it has written and every slot a
\* history walk of the evaluation range reads is one of 1..8.
C19_SlotsInRange ==
    /\ pc = "chain" => (gj \in SlotRange \/ ~RowsWithin(4))
    /\ pc = "range" =>
         \/ /\ \A i \in DOMAIN V : DOMAIN V[i] \subseteq SlotRange
            /\ \A i \in EvalRows : \A rd \in HistReads(i) : rd[2] \in SlotRange
         \/ ~RowsWithin(4)

C19_Witness ==
    /\ pc = "range"
    /\ RowsWithin(4)
    /\ \E k \in DOMAIN date : k > 0 /\ date[k] - date[k - 1] = 4
    /\ \E i \in DOMAIN V : (EomSlot - 1) \in DOMAIN V[i]
    /\ \E i \in EvalRows : \E rd \in HistReads(i) : rd[2] \in 2..(EomSlot - 1)

\* the calendar holds every day and its first row is a January 1
EveryDayFromNewYear ==
    /\ Month(date[0]) = 1
    /\ Day(date[0]) = 1
    /\ RowsWithin(1)

\* entry k of the window h of row i is dated 3k calendar months before row i,
\* the day of the month clamped to the length of that month
AnchorsExact(i, h) ==
    /\ h.ok
    /\ Len(h.hist) = NumLags + 1
    /\ \A k \in 1..NumLags : h.hist[k + 1].date = AddMonths(date[i], -(3 * k))

\* the last input row, the first start row of the builder (line 243)
LastRow == Size(date) - 1

\* C20: on an every-day calendar that starts on a January 1, for every row of
\* the evaluation range that is not the last row of its month, each of the 12
\* entries of history is the row dated exactly 3k months before the row, the
\* day clamped only against the target month (no drift along the chain).
\* While the builder runs this already holds of the last row as soon as the
\* 12 slots of its walk are written.
C20_AnchorsExactOnDailyCalendar ==
    /\ pc = "range" =>
         \/ \A i \in EvalRows :
               check_EndOfM(date, i) \/ AnchorsExact(i, history(i))
         \/ ~EveryDayFromNewYear
    /\ pc = "chain" =>
         \/ AnchorsExact(LastRow, history(LastRow))
         \/ ~history(LastRow).ok
         \/ check_EndOfM(date, LastRow)
         \/ LastRow \notin EvalRows
         \/ ~EveryDayFromNewYear

\* a row dated the 30th whose window passes a February 28 and returns to the
\* 30th of a month
C20_Witness ==
    /\ pc = "chain"
    /\ Day(date[LastRow]) = 30
    /\ AnchorsExact(LastRow, history(LastRow))
    /\ Day(history(LastRow).hist[2].date) = 28
    /\ Day(history(LastRow).hist[3].date) = 30
    /\ ~check_EndOfM(date, LastRow)
    /\ LastRow \in EvalRows
    /\ EveryDayFromNewYear

\* the table holds the last day of every month of a run of consecutive months
MonthEndTable ==
    \A k \in DOMAIN date :
        /\ LastDayOfMonth(date[k])
        /\ k >= 1 => date[k] = MonthEnd(date[k - 1] + 1)

\* the window h of row i holds the rows i, i-3, ..., i-36 in that order
EveryThirdRow(i, h) ==
    /\ h.ok
    /\ Len(h.hist) = NumLags + 1
    /\ \A k \in 0..NumLags : h.hist[k + 1].row = i - 3 * k

\* C21: on a table with one month-end row per consecutive month every row is
\* an end-of-month row and every chain of the builder runs in end-of-month
\* mode on slot 8; for every row i of the evaluation range history(i) is the
\* rows i, i-3, ..., i-36 in that order, and the walk reads slot 8 only.
C21_MonthlyEveryThirdRow ==
    /\ pc = "chain" => ((endofm /\ gj = EomSlot) \/ ~MonthEndTable)
    /\ pc = "range" =>
         \/ /\ \A i \in DOMAIN date : check_EndOfM(date, i)
            /\ \A i \in EvalRows :
                  /\ EveryThirdRow(i, history(i))
                  /\ \A rd \in HistReads(i) : rd[2] = EomSlot
         \/ ~MonthEndTable

\* a table given with mid-month dates, normalized, whose evaluation range has
\* several rows with windows of 13 rows
C21_Witness ==
    /\ pc = "range"
    /\ MonthEndTable
    /\ stored
    /\ \E i \in EvalRows :
          /\ i > 3 * NumLags
          /\ EveryThirdRow(i, history(i))
          /\ Cardinality(HistReads(i)) = NumLags

\* line 260: the row the next iteration of the while loop finds
FoundRow == threemonthdate(date, date[gi], gj, endofm, dayt)

\* a row dated min_date_plus_3m or later without a node in slot 1
Frontier == {k \in DOMAIN date : date[k] >= m3 /\ IsNaN(V, k, 1)}

\* C22: every iteration of the builder's loop finds a row dated strictly
\* before the chain's current row (so the builder terminates), and when the
\* builder has returned no row dated earliest + 3 months or later has slot 1
\* unset.
C22_BuilderTerminates ==
    /\ (pc = "chain" /\ FoundRow # NoRow) => date[FoundRow] < date[gi]
    /\ pc = "range" => Frontier = {}

====
